---- MODULE Spec2Model ----
(***************************************************************************)
(* Model of the background-remover front end:                              *)
(*   src/App.tsx                   the presentation shell (React state,    *)
(*                                 processFile and the event handlers)     *)
(*   src/services/geminiService.ts removeImageBackground and parseDataUrl  *)
(* Strings are TLA+ strings; Len, \o and SubSeq act on them character by   *)
(* character.  A thrown JavaScript value is a record [isError, message].   *)
(***************************************************************************)
EXTENDS Integers, Sequences, FiniteSets, TLC

(***************************************************************************)
(* Bounds of the model.                                                    *)
(***************************************************************************)
\* files the user selects or drops in one run (each accepted one is a task)
MaxFiles == 2
\* content parts in one response of the remote service
MaxParts == 2
\* pieces a media type or a payload handed to the codec is built from
MaxPieces == 2

(***************************************************************************)
(* String helpers (String.prototype.startsWith, substring search).         *)
(***************************************************************************)
StartsWith(s, p) == Len(s) >= Len(p) /\ SubSeq(s, 1, Len(p)) = p

OccursAt(s, p, i) == i >= 1 /\ i + Len(p) - 1 <= Len(s) /\ SubSeq(s, i, i + Len(p) - 1) = p

Contains(s, p) == \E i \in 1..(Len(s) + 1) : OccursAt(s, p, i)

\* the characters the regular expression's "." does not match (no s flag);
\* U+2028 and U+2029 are the other two and cannot be written here
LineTerminators == {"\n", "\r"}

DotPlus(s) == Len(s) >= 1 /\ \A i \in 1..Len(s) : SubSeq(s, i, i) \notin LineTerminators

Null == "<null>"

Error(msg) == [isError |-> TRUE, message |-> msg]

NonError == [isError |-> FALSE, message |-> ""]

Return(v) == [ok |-> TRUE, value |-> v, error |-> NonError]

Throw(e) == [ok |-> FALSE, value |-> "", error |-> e]

(***************************************************************************)
(* geminiService.ts: parseDataUrl, /^data:(.+);base64,(.+)$/               *)
(***************************************************************************)
DataScheme == "data:"

Base64Marker == ";base64,"

\* the positions at which ";base64," can be matched so that both groups match
MarkerPositions(dataUrl) ==
    { i \in 1..Len(dataUrl) :
        /\ StartsWith(dataUrl, DataScheme)
        /\ OccursAt(dataUrl, Base64Marker, i)
        /\ i > Len(DataScheme)
        /\ DotPlus(SubSeq(dataUrl, Len(DataScheme) + 1, i - 1))
        /\ DotPlus(SubSeq(dataUrl, i + Len(Base64Marker), Len(dataUrl))) }

LazyGroup(S) == CHOOSE i \in S : \A j \in S : i <= j

\* the first group is greedy: it takes the longest prefix that lets the rest match
GreedyGroup(S) == CHOOSE i \in S : \A j \in S : j <= i

NoMatch == [matched |-> FALSE, mimeType |-> "", base64Data |-> ""]

RegexMatch(dataUrl) ==
    LET S == MarkerPositions(dataUrl) IN
    IF S = {} THEN NoMatch
    ELSE LET i == GreedyGroup(S) IN
         [matched |-> TRUE,
          mimeType |-> SubSeq(dataUrl, Len(DataScheme) + 1, i - 1),
          base64Data |-> SubSeq(dataUrl, i + Len(Base64Marker), Len(dataUrl))]

InvalidDataUrl == "Invalid data URL format"

parseDataUrl(dataUrl) ==
    LET match == RegexMatch(dataUrl) IN
    IF ~match.matched
    THEN [ok |-> FALSE, mimeType |-> "", base64Data |-> "", error |-> Error(InvalidDataUrl)]
    ELSE [ok |-> TRUE, mimeType |-> match.mimeType, base64Data |-> match.base64Data,
          error |-> NonError]

(***************************************************************************)
(* geminiService.ts: removeImageBackground.  A response of generateContent *)
(* is [hasParts, parts, finishReason]: hasParts is FALSE when              *)
(* response.candidates[0].content.parts cannot be iterated (no candidate,  *)
(* no content or no parts: the fields are optional in the response), a     *)
(* part is [inline, data] (part.inlineData set, and its data or the text). *)
(***************************************************************************)
TextPart == [inline |-> FALSE, data |-> "Here is your image."]

InlineParts == { [inline |-> TRUE, data |-> d] : d \in {"iVBORw0K", "R0lGODlh"} }

Parts == {TextPart} \cup InlineParts

PartLists == UNION { [1..n -> Parts] : n \in 0..MaxParts }

FinishReasons == {"STOP", "SAFETY"}

Responses ==
    { [kind |-> "response", hasParts |-> TRUE, parts |-> ps, finishReason |-> fr,
       error |-> NonError] : ps \in PartLists, fr \in FinishReasons }
    \cup
    { [kind |-> "response", hasParts |-> FALSE, parts |-> <<>>, finishReason |-> fr,
       error |-> NonError] : fr \in FinishReasons }

\* a value that is thrown and is no Error (a string, a response object)
ThrownText == [isError |-> FALSE, message |-> "503 Service Unavailable"]

\* what a failed generateContent call rejects with: an Error or another value
TransportFailures ==
    { [kind |-> "reject", hasParts |-> FALSE, parts |-> <<>>, finishReason |-> "",
       error |-> e] : e \in {Error("Failed to fetch"), ThrownText} }

Outcomes == Responses \cup TransportFailures

TypeErrorMessage == "Cannot read properties of undefined (reading 'parts')"

NoImageData == "No image data found in the API response."

StoppedDueTo(finishReason) ==
    "Processing was stopped due to: " \o finishReason \o ". Please try a different image."

RECURSIVE LastInlineFrom(_, _)
LastInlineFrom(parts, i) ==
    IF i < 1 THEN 0
    ELSE IF parts[i].inline THEN i
    ELSE LastInlineFrom(parts, i - 1)

\* the for loop of lines 46-50: the index of the part it returns from, 0 if none
RECURSIVE FirstInlineFrom(_, _)
FirstInlineFrom(parts, i) ==
    IF i > Len(parts) THEN 0
    ELSE IF parts[i].inline THEN i
    ELSE FirstInlineFrom(parts, i + 1)

ScanFromEnd(parts) == LastInlineFrom(parts, Len(parts))

ScanParts(parts) == FirstInlineFrom(parts, 1)

\* the try block after the await (lines 46-57)
ReadResponse(response) ==
    IF ~response.hasParts THEN Throw(Error(TypeErrorMessage))
    ELSE LET i == ScanParts(response.parts) IN
         IF i # 0 THEN Return(response.parts[i].data)
         ELSE IF response.finishReason # "STOP"
              THEN Throw(Error(StoppedDueTo(response.finishReason)))
              ELSE Throw(Error(NoImageData))

UnknownApiError == "An unknown error occurred while communicating with the API."

RethrowUnwrapped(error) ==
    IF error.isError THEN Error(error.message)
    ELSE Error(UnknownApiError)

\* the catch block (lines 59-65)
CatchApiError(error) ==
    IF error.isError THEN Error("API Error: " \o error.message)
    ELSE Error(UnknownApiError)

\* what removeImageBackground settles with once generateContent settles
removeImageBackground(outcome) ==
    LET r == IF outcome.kind = "response" THEN ReadResponse(outcome)
             ELSE Throw(outcome.error) IN
    IF r.ok THEN r ELSE Throw(CatchApiError(r.error))

(***************************************************************************)
(* The files the user can select or drop: a declared type and the base64   *)
(* text of the content (empty for an empty file).                          *)
(***************************************************************************)
ImageTypes == {"image/png"}

NonImageTypes == {"text/plain"}

Files == { [type |-> ty, payload |-> p] : ty \in ImageTypes, p \in {"", "QUJD", "REVG"} }
         \cup { [type |-> ty, payload |-> "QUJD"] : ty \in NonImageTypes }

NoFile == [type |-> "<none>", payload |-> ""]

\* utils/fileUtils.ts: fileToDataUrl resolves with the file as a data URL ...
fileToDataUrl(file) == DataScheme \o file.type \o Base64Marker \o file.payload

\* ... or rejects when the file cannot be read
ReadFailures == {Error("The file could not be read."), NonError}

(***************************************************************************)
(* App.tsx: the state of the App component.                                *)
(***************************************************************************)
VARIABLES
    appState,        \* 'idle' | 'processing' | 'success' | 'error'
    originalImage,   \* string | null
    processedImage,  \* string | null
    processedFrom,   \* the data URL whose request gave processedImage, or null
    errorMessage,    \* string
    pickerOpen,      \* the file dialog opened by fileInputRef.current.click()
    tasks,           \* the calls of processFile: where each is suspended, and on what
    nfiles,          \* files selected or dropped so far
    calls,           \* generateContent calls started so far
    last,            \* the handler that ran last, with its input
    codecIn,         \* codec check: what the string handed to parseDataUrl is built from
    codecOut         \* codec check: what parseDataUrl returned or threw

shell == <<appState, originalImage, processedImage, processedFrom, errorMessage,
           pickerOpen, tasks, nfiles, calls, last>>

codec == <<codecIn, codecOut>>

vars == <<appState, originalImage, processedImage, processedFrom, errorMessage,
          pickerOpen, tasks, nfiles, calls, last, codecIn, codecOut>>

TaskIds == 1..MaxFiles

NoTask == [pc |-> "unused", file |-> NoFile, dataUrl |-> ""]

Finished == [pc |-> "done", file |-> NoFile, dataUrl |-> ""]

NoOutcome == [kind |-> "none", hasParts |-> FALSE, parts |-> <<>>, finishReason |-> "",
              error |-> NonError]

\* the handler that ran, the appState it ran in, the file or the settled
\* call it ran with, and the number of generateContent calls before it
Ran(op, file, outcome) ==
    [op |-> op, from |-> appState, file |-> file, outcome |-> outcome, calls |-> calls]

NotACodecCheck == [ok |-> FALSE, mimeType |-> "", base64Data |-> "", error |-> NonError]

InitShell ==
    /\ appState = "idle"
    /\ originalImage = Null
    /\ processedImage = Null
    /\ processedFrom = Null
    /\ errorMessage = ""
    /\ pickerOpen = FALSE
    /\ tasks = [t \in TaskIds |-> NoTask]
    /\ nfiles = 0
    /\ calls = 0
    /\ last = [op |-> "init", from |-> "idle", file |-> NoFile, outcome |-> NoOutcome,
               calls |-> 0]

NoCodecInput == [scheme |-> "", mediaType |-> "", marker |-> "", payload |-> ""]

Init ==
    /\ InitShell
    /\ codecIn = NoCodecInput
    /\ codecOut = NotACodecCheck

(***************************************************************************)
(* App.tsx: processFile.                                                   *)
(***************************************************************************)
AcceptsEveryFile(file) == TRUE

\* line 25: file.type.startsWith('image/')
IsImageFile(file) == StartsWith(file.type, "image/")

InvalidImageFile == "Please upload a valid image file."

UnknownError == "An unknown error occurred."

\* line 44
CaughtMessage(err) == IF err.isError THEN err.message ELSE UnknownError

CatchWithoutErrorState(err) ==
    /\ errorMessage' = "Failed to process image. " \o CaughtMessage(err)
    /\ originalImage' = Null
    /\ UNCHANGED appState

\* the catch block, lines 42-48
CatchInProcessFile(err) ==
    /\ errorMessage' = "Failed to process image. " \o CaughtMessage(err)
    /\ appState' = "error"
    /\ originalImage' = Null

\* lines 25-35: up to the first await
processFile(file) ==
    IF ~IsImageFile(file)
    THEN /\ errorMessage' = InvalidImageFile
         /\ appState' = "error"
         /\ UNCHANGED <<originalImage, processedImage, processedFrom, tasks, calls>>
    ELSE /\ appState' = "processing"
         /\ processedImage' = Null
         /\ processedFrom' = Null
         /\ errorMessage' = ""
         /\ tasks' = [tasks EXCEPT ![nfiles + 1] =
                         [pc |-> "reading", file |-> file, dataUrl |-> ""]]
         /\ UNCHANGED <<originalImage, calls>>

\* lines 35-38: fileToDataUrl resolves; removeImageBackground parses the data
\* URL (line 22) and, unless that throws, calls generateContent (line 36)
FileReadResolves(t) ==
    /\ tasks[t].pc = "reading"
    /\ LET dataUrl == fileToDataUrl(tasks[t].file)
           parsed == parseDataUrl(dataUrl) IN
       IF parsed.ok
       THEN /\ originalImage' = dataUrl
            /\ tasks' = [tasks EXCEPT ![t].pc = "calling", ![t].dataUrl = dataUrl]
            /\ calls' = calls + 1
            /\ UNCHANGED <<appState, errorMessage>>
       ELSE /\ CatchInProcessFile(parsed.error)
            /\ tasks' = [tasks EXCEPT ![t] = Finished]
            /\ UNCHANGED calls
    /\ last' = LET parsed == parseDataUrl(fileToDataUrl(tasks[t].file)) IN
               Ran("fileReadResolves", NoFile,
                   IF parsed.ok THEN NoOutcome
                   ELSE [NoOutcome EXCEPT !.kind = "formatError", !.error = parsed.error])
    /\ UNCHANGED <<processedImage, processedFrom, pickerOpen, nfiles>>
    /\ UNCHANGED codec

\* line 35: fileToDataUrl rejects
FileReadRejects(t, err) ==
    /\ tasks[t].pc = "reading"
    /\ last' = Ran("fileReadRejects", NoFile,
                   [NoOutcome EXCEPT !.kind = "readFailure", !.error = err])
    /\ tasks' = [tasks EXCEPT ![t] = Finished]
    /\ CatchInProcessFile(err)
    /\ UNCHANGED <<processedImage, processedFrom, pickerOpen, nfiles, calls>>
    /\ UNCHANGED codec

ResultDataUrl(resultBase64) == "data:image/png;base64," \o resultBase64

RequestSettlesAndRetries(t, outcome) ==
    /\ tasks[t].pc = "calling"
    /\ LET r == removeImageBackground(outcome) IN
       IF r.ok
       THEN /\ processedImage' = ResultDataUrl(r.value)
            /\ processedFrom' = tasks[t].dataUrl
            /\ appState' = "success"
            /\ tasks' = [tasks EXCEPT ![t] = Finished]
            /\ UNCHANGED <<originalImage, errorMessage, calls>>
       ELSE /\ calls < MaxFiles
            /\ calls' = calls + 1
            /\ UNCHANGED <<appState, originalImage, processedImage, processedFrom,
                           errorMessage, tasks>>
    /\ last' = Ran("requestSettles", NoFile, outcome)
    /\ UNCHANGED <<pickerOpen, nfiles>>
    /\ UNCHANGED codec

\* lines 38-48: generateContent settles, removeImageBackground returns or
\* throws, and processFile goes on to success or into its catch block
RequestSettles(t, outcome) ==
    /\ tasks[t].pc = "calling"
    /\ last' = Ran("requestSettles", NoFile, outcome)
    /\ tasks' = [tasks EXCEPT ![t] = Finished]
    /\ LET r == removeImageBackground(outcome) IN
       IF r.ok
       THEN /\ processedImage' = ResultDataUrl(r.value)
            /\ processedFrom' = tasks[t].dataUrl
            /\ appState' = "success"
            /\ UNCHANGED <<originalImage, errorMessage>>
       ELSE /\ CatchInProcessFile(r.error)
            /\ UNCHANGED <<processedImage, processedFrom>>
    /\ UNCHANGED <<pickerOpen, nfiles, calls>>
    /\ UNCHANGED codec

(***************************************************************************)
(* App.tsx: the event handlers.  A control can be used when it is rendered *)
(* and the file dialog, which is modal, is closed.                         *)
(***************************************************************************)
\* lines 106-108 and ImageDisplay.tsx lines 30-40
UploadButtonShown == appState = "idle" /\ originalImage = Null

\* lines 114-115
ErrorDisplayShown == appState = "error"

\* line 120
ResetButtonShown == appState # "idle"

\* line 129
DownloadButtonShown == appState = "success"

\* lines 51-53, from the upload button or from "Try Again"
handleUploadClick ==
    /\ ~pickerOpen
    /\ UploadButtonShown \/ ErrorDisplayShown
    /\ pickerOpen' = TRUE
    /\ last' = Ran("handleUploadClick", NoFile, NoOutcome)
    /\ UNCHANGED <<appState, originalImage, processedImage, processedFrom, errorMessage, tasks,
                   nfiles, calls>>
    /\ UNCHANGED codec

\* the user closes the dialog without a file: no change event
CancelPicker ==
    /\ pickerOpen
    /\ pickerOpen' = FALSE
    /\ last' = Ran("cancelPicker", NoFile, NoOutcome)
    /\ UNCHANGED <<appState, originalImage, processedImage, processedFrom, errorMessage, tasks,
                   nfiles, calls>>
    /\ UNCHANGED codec

\* lines 17-22
handleFileChange(file) ==
    /\ pickerOpen
    /\ nfiles < MaxFiles
    /\ pickerOpen' = FALSE
    /\ processFile(file)
    /\ nfiles' = nfiles + 1
    /\ last' = Ran("handleFileChange", file, NoOutcome)
    /\ UNCHANGED codec

handleDropInAnyState(file) ==
    /\ ~pickerOpen
    /\ nfiles < MaxFiles
    /\ processFile(file)
    /\ nfiles' = nfiles + 1
    /\ last' = Ran("handleDrop", file, NoOutcome)
    /\ UNCHANGED pickerOpen
    /\ UNCHANGED codec

\* lines 55-64
handleDrop(file) ==
    /\ ~pickerOpen
    /\ IF appState = "processing"
       THEN /\ last' = Ran("handleDrop", file, NoOutcome)
            /\ UNCHANGED <<appState, originalImage, processedImage, processedFrom, errorMessage,
                           tasks, nfiles, calls>>
       ELSE /\ nfiles < MaxFiles
            /\ processFile(file)
            /\ nfiles' = nfiles + 1
            /\ last' = Ran("handleDrop", file, NoOutcome)
    /\ UNCHANGED pickerOpen
    /\ UNCHANGED codec

handleResetKeepsErrorText ==
    /\ ~pickerOpen
    /\ appState # "idle"
    /\ originalImage' = Null
    /\ processedImage' = Null
    /\ processedFrom' = Null
    /\ appState' = "idle"
    /\ last' = Ran("handleReset", NoFile, NoOutcome)
    /\ UNCHANGED <<errorMessage, pickerOpen, tasks, nfiles, calls>>
    /\ UNCHANGED codec

\* lines 71-79
handleReset ==
    /\ ~pickerOpen
    /\ ResetButtonShown
    /\ originalImage' = Null
    /\ processedImage' = Null
    /\ processedFrom' = Null
    /\ appState' = "idle"
    /\ errorMessage' = ""
    /\ last' = Ran("handleReset", NoFile, NoOutcome)
    /\ UNCHANGED <<pickerOpen, tasks, nfiles, calls>>
    /\ UNCHANGED codec

\* lines 81-89: the link clicked has href = processedImage; no state is set
handleDownload ==
    /\ ~pickerOpen
    /\ DownloadButtonShown
    /\ last' = Ran(IF processedImage = Null THEN "handleDownload: nothing"
                   ELSE "handleDownload", NoFile, NoOutcome)
    /\ UNCHANGED <<appState, originalImage, processedImage, processedFrom, errorMessage, pickerOpen,
                   tasks, nfiles, calls>>
    /\ UNCHANGED codec

Next ==
    \/ handleUploadClick
    \/ CancelPicker
    \/ \E file \in Files : handleFileChange(file)
    \/ \E file \in Files : handleDrop(file)
    \/ handleReset
    \/ handleDownload
    \/ \E t \in TaskIds : FileReadResolves(t)
    \/ \E t \in TaskIds, err \in ReadFailures : FileReadRejects(t, err)
    \/ \E t \in TaskIds, outcome \in Outcomes : RequestSettles(t, outcome)

Spec == Init /\ [][Next]_vars

\* a promise that is pending settles: the file reader fires load or error,
\* and every generateContent call started resolves or rejects
FileReadSettles(t) == FileReadResolves(t) \/ \E err \in ReadFailures : FileReadRejects(t, err)

RequestSettlesSomehow(t) == \E outcome \in Outcomes : RequestSettles(t, outcome)

\* as long as some promise is pending, one of the pending ones settles
Settles == \E t \in TaskIds : FileReadSettles(t) \/ RequestSettlesSomehow(t)

SpecLive == Init /\ [][Next]_vars /\ WF_vars(Settles)

(***************************************************************************)
(* parseDataUrl on its own: the strings scheme \o T \o marker \o P, with T *)
(* and P built from at most MaxPieces pieces, one of them the marker       *)
(* itself and one a line terminator.                                       *)
(***************************************************************************)
Pieces == {"a", ";", Base64Marker, "\n"}

RECURSIVE Texts(_)
Texts(n) ==
    IF n = 0 THEN {""}
    ELSE LET S == Texts(n - 1) IN S \cup { t \o p : t \in S, p \in Pieces }

Schemes == {DataScheme, "x" \o DataScheme, ""}

Markers == {Base64Marker, ";base64", ""}

CodecString(in) == in.scheme \o in.mediaType \o in.marker \o in.payload

InitCodec ==
    /\ InitShell
    /\ codecIn \in { [scheme |-> sc, mediaType |-> T, marker |-> m, payload |-> P] :
                       sc \in Schemes, T \in Texts(MaxPieces), m \in Markers,
                       P \in Texts(MaxPieces) }
    /\ codecOut = NotACodecCheck

ParseDataUrl ==
    /\ codecOut = NotACodecCheck
    /\ codecOut' = parseDataUrl(CodecString(codecIn))
    /\ UNCHANGED codecIn
    /\ UNCHANGED shell

NextCodec == ParseDataUrl

SpecCodec == InitCodec /\ [][NextCodec]_vars

(***************************************************************************)
(* C1.  parseDataUrl and the shape data:T;base64,P.                        *)
(***************************************************************************)
Parsed == codecOut # NotACodecCheck

ExactForm == codecIn.scheme = DataScheme /\ codecIn.marker = Base64Marker

Split(T, P) == [ok |-> TRUE, mimeType |-> T, base64Data |-> P, error |-> NonError]

FormatError == [ok |-> FALSE, mimeType |-> "", base64Data |-> "",
                error |-> Error("Invalid data URL format")]

\* s can be read as data:T;base64,P with T the n characters after the scheme
ReadsAs(s, n) ==
    /\ Len(s) >= 5 + n + 8 + 1
    /\ SubSeq(s, 1, 5) = "data:"
    /\ SubSeq(s, 5 + n + 1, 5 + n + 8) = ";base64,"

HasShape(s) == \E n \in 1..Len(s) : ReadsAs(s, n)

HasShapeOnOneLine(s) ==
    \E n \in 1..Len(s) :
        /\ ReadsAs(s, n)
        /\ DotPlus(SubSeq(s, 6, 5 + n))
        /\ DotPlus(SubSeq(s, 5 + n + 9, Len(s)))

\* C1 as stated, for strings of one line: every string data:T;base64,P with
\* T and P not empty is split into exactly (T, P), also when T or P holds
\* ";base64,", and every string that has not that shape fails with the
\* format error.
C1_AsStated ==
    Parsed =>
        /\ (ExactForm /\ DotPlus(codecIn.mediaType) /\ DotPlus(codecIn.payload))
              => codecOut = Split(codecIn.mediaType, codecIn.payload)
        /\ ~HasShape(CodecString(codecIn)) => codecOut = FormatError

\* C1 as amended: data:T;base64,P is split into exactly (T, P) when T and P
\* are not empty and hold no line terminator and P does not contain
\* ";base64," (T may contain it); a string that cannot be read as
\* data:T;base64,P with T and P not empty and free of line terminators
\* fails with the format error "Invalid data URL format".
C1_ParseDataUrl ==
    Parsed =>
        /\ (/\ ExactForm
            /\ DotPlus(codecIn.mediaType)
            /\ DotPlus(codecIn.payload)
            /\ ~Contains(codecIn.payload, Base64Marker))
              => codecOut = Split(codecIn.mediaType, codecIn.payload)
        /\ ~HasShapeOnOneLine(CodecString(codecIn)) => codecOut = FormatError

\* a media type that itself contains ";base64," has been split off correctly
C1_Witness ==
    /\ Parsed
    /\ ExactForm
    /\ Contains(codecIn.mediaType, Base64Marker)
    /\ DotPlus(codecIn.payload)
    /\ codecOut = Split(codecIn.mediaType, codecIn.payload)

(***************************************************************************)
(* Reading the handler that ran last.                                      *)
(***************************************************************************)
\* processFile was called: a change event, or a drop that was not ignored
FileSelected ==
    \/ last.op = "handleFileChange"
    \/ last.op = "handleDrop" /\ last.from # "processing"

Settled == last.op = "requestSettles"

GotResponse == Settled /\ last.outcome.kind = "response"

InlineAt(i) ==
    /\ last.outcome.hasParts
    /\ i \in 1..Len(last.outcome.parts)
    /\ last.outcome.parts[i].inline

NoInlinePayload == \A i \in 1..Len(last.outcome.parts) : ~InlineAt(i)

Outstanding == { t \in TaskIds : tasks[t].pc = "calling" }

\* C2.  A selected or dropped file whose declared type does not start with
\* 'image/' puts the shell into error, starts no generateContent call and
\* leaves no call of processFile pending for it.
C2_NonImageRejected ==
    /\ (FileSelected /\ last.file.type \in NonImageTypes) =>
          /\ appState = "error"
          /\ calls = last.calls
          /\ tasks[nfiles] = NoTask
    /\ \A t \in TaskIds : tasks[t].file.type \notin NonImageTypes

\* a non-image file dropped on the result of an earlier request
C2_Witness ==
    /\ FileSelected
    /\ last.file.type \in NonImageTypes
    /\ last.from = "success"
    /\ appState = "error"

\* C3.  handleReset, run in success or in error, leaves the shell idle with
\* both images null and the error text empty.
C3_Reset ==
    (last.op = "handleReset" /\ last.from \in {"success", "error"}) =>
        /\ appState = "idle"
        /\ originalImage = Null
        /\ processedImage = Null
        /\ errorMessage = ""

C3_Witness == last.op = "handleReset" /\ last.from = "error" /\ appState = "idle"

\* C4.  When the response holds an inline payload, the shell enters success
\* and processedImage is the PNG data URL of the payload of the first part
\* that carries one, whatever the other parts are.
C4_FirstInlinePayload ==
    (GotResponse /\ ~NoInlinePayload) =>
        \E i \in 1..Len(last.outcome.parts) :
            /\ InlineAt(i)
            /\ \A j \in 1..(i - 1) : ~InlineAt(j)
            /\ processedImage = "data:image/png;base64," \o last.outcome.parts[i].data
            /\ appState = "success"

\* two parts with different inline payloads, the first one shown
C4_Witness ==
    /\ GotResponse
    /\ \E i, j \in 1..Len(last.outcome.parts) :
          /\ i < j
          /\ InlineAt(i) /\ InlineAt(j)
          /\ last.outcome.parts[i].data # last.outcome.parts[j].data
          /\ processedImage = ResultDataUrl(last.outcome.parts[i].data)
    /\ appState = "success"

\* C5.  A response without inline payload whose finish reason is not 'STOP'
\* makes removeImageBackground throw an error that names the finish reason
\* and that no transport failure produces.
C5_AsStated ==
    (GotResponse /\ NoInlinePayload /\ last.outcome.finishReason # "STOP") =>
        LET r == removeImageBackground(last.outcome) IN
        /\ ~r.ok
        /\ Contains(r.error.message,
                    "Processing was stopped due to: " \o last.outcome.finishReason)
        /\ \A f \in TransportFailures : removeImageBackground(f) # r

\* C6.  A response without inline payload whose finish reason is 'STOP' makes
\* removeImageBackground throw the no-output error, not a content-policy
\* error, and never return.
C6_AsStated ==
    (GotResponse /\ NoInlinePayload /\ last.outcome.finishReason = "STOP") =>
        LET r == removeImageBackground(last.outcome) IN
        /\ ~r.ok
        /\ Contains(r.error.message, "No image data found in the API response.")
        /\ ~Contains(r.error.message, "Processing was stopped due to: ")

\* C7.  In error the original image is null.
C7_AsStated == appState = "error" => originalImage = Null

\* C8.  At most one generateContent call is outstanding.
C8_AsStated == Cardinality(Outstanding) <= 1

\* C9.  The shell enters success only from processing, when the request in
\* flight settles with an image.
C9_AsStated ==
    (appState = "success" /\ last.from # "success") =>
        last.op = "requestSettles" /\ last.from = "processing"

\* C10.  After a format error or a failed request the shell is in error, the
\* error text is not empty and processedImage is null.
C10_AsStated ==
    (\/ last.outcome.kind = "formatError"
     \/ Settled /\ ~removeImageBackground(last.outcome).ok) =>
        /\ appState = "error"
        /\ errorMessage # ""
        /\ processedImage = Null

Rejected == Settled /\ last.outcome.kind = "reject"

\* C11 as stated: whatever generateContent rejects with, an Error or another
\* value, removeImageBackground throws an Error whose message carries the
\* message of the upstream failure (and processFile shows it).
C11_AsStated ==
    Rejected =>
        LET r == removeImageBackground(last.outcome) IN
        /\ ~r.ok
        /\ r.error.isError
        /\ Contains(r.error.message, last.outcome.error.message)
        /\ Contains(errorMessage, last.outcome.error.message)

\* C11 as amended: when generateContent rejects with an Error, the error
\* thrown is 'API Error: ' followed by the upstream message; when it rejects
\* with a value that is no Error, the error thrown has the fixed message
\* 'An unknown error occurred while communicating with the API.' and the
\* upstream value is dropped.  Either way the shell shows that message.
C11_TransportFailure ==
    Rejected =>
        LET upstream == last.outcome.error
            shown == IF upstream.isError THEN "API Error: " \o upstream.message
                     ELSE "An unknown error occurred while communicating with the API."
        IN /\ appState = "error"
           /\ errorMessage = "Failed to process image. " \o shown
           /\ upstream.isError => Contains(errorMessage, upstream.message)

\* a rejection with a value that is no Error has been shown as the fixed text
C11_Witness ==
    /\ Rejected
    /\ ~last.outcome.error.isError
    /\ appState = "error"
    /\ ~Contains(errorMessage, last.outcome.error.message)

\* the calls of processFile that went past the type check
Accepted == { t \in TaskIds : tasks[t].pc # "unused" }

\* ... and those that went past parseDataUrl
PastCodec == { t \in TaskIds : tasks[t].pc \in {"calling", "done"} }

\* C12.  There are never more generateContent calls than accepted files
\* whose data URL was read; a call is started only when the file of an
\* accepted selection has been read and parsed, one call at a time; no call
\* is started when a request settles (no retry) or when the codec fails.
C12_OneCallPerFile ==
    /\ calls <= Cardinality(PastCodec)
    /\ calls <= Cardinality(Accepted)
    /\ calls # last.calls =>
          /\ last.op = "fileReadResolves"
          /\ last.outcome.kind = "none"
          /\ calls = last.calls + 1
    /\ (Settled \/ last.outcome.kind = "formatError") => calls = last.calls

\* a request has failed and no other call has been started for it
C12_Witness ==
    /\ Settled
    /\ ~removeImageBackground(last.outcome).ok
    /\ appState = "error"
    /\ calls = 1
    /\ Outstanding = {}

\* C13.  A drop received while appState = 'processing' starts no request and
\* leaves appState, originalImage, processedImage and errorMessage as they
\* are (no call of processFile is added, no generateContent call started).
C13_DropIgnored ==
    [][(appState = "processing" /\ last'.op = "handleDrop") =>
            UNCHANGED <<appState, originalImage, processedImage, processedFrom, errorMessage,
                        tasks, nfiles, calls>>]_vars

\* an image file has been dropped during processing, and nothing started
C13_Witness ==
    /\ last.op = "handleDrop"
    /\ last.from = "processing"
    /\ last.file.type \in ImageTypes
    /\ appState = "processing"
    /\ Cardinality(Accepted) = 1

\* C14.  When every pending file read and every started generateContent
\* call settles, processing is always followed by success or error, also
\* when the user resets or selects other files in between.
C14_ProcessingEnds == (appState = "processing") ~> (appState \in {"success", "error"})

\* the request of a file that was reset away has settled in an idle shell
C14_Witness ==
    /\ Settled
    /\ last.from = "idle"
    /\ appState \in {"success", "error"}

\* C15.  The shell is in processing, coming from another state, only right
\* after a file whose declared type is an image type was selected or
\* dropped: no reset, download, upload click or settling promise moves it
\* into processing.
C15_ProcessingOnlyBySelection ==
    (appState = "processing" /\ last.from # "processing") =>
        /\ FileSelected
        /\ last.file.type \in ImageTypes

\* "Try Again" after an error, then an image file
C15_Witness ==
    /\ appState = "processing"
    /\ last.op = "handleFileChange"
    /\ last.from = "error"
    /\ last.file.type \in ImageTypes

\* C16.  In success, when an original image is shown, the processed image
\* is the result of the request that was issued for that original image.
C16_AsStated ==
    (appState = "success" /\ originalImage # Null) =>
        /\ processedImage # Null
        /\ processedFrom = originalImage

\* C17.  In success the error text is empty.
C17_AsStated == appState = "success" => errorMessage = ""

\* C18.  In idle no image is chosen and the error text is empty.
C18_AsStated ==
    appState = "idle" =>
        /\ originalImage = Null
        /\ processedImage = Null
        /\ errorMessage = ""

====
